---- MODULE Spec2Model ----
(***************************************************************************)
(* A model of the market-data and exchange operations of the Kalshi client *)
(* (kalshi/src/market.rs, kalshi/src/exchange.rs): how each operation      *)
(* builds its request, and how                                             *)
(* the JSON body of the response is decoded into the value it returns.     *)
(* One call at a time is followed through pc, op, args, request, response  *)
(* and result; tasks follows several callers that share the client.        *)
(*                                                                         *)
(* Text is a sequence of one-character strings.  A request target is a     *)
(* sequence of symbols: the client's base URL ("base_url"), the string     *)
(* literals of the source ("/markets", "limit", ...) and single            *)
(* characters.  JSON values and Rust values are tagged tuples.             *)
(***************************************************************************)
EXTENDS Integers, Sequences, FiniteSets, TLC

VARIABLES pc, op, args, request, response, result, nsent, tasks

vars == <<pc, op, args, request, response, result, nsent, tasks>>

(***************************************************************************)
(* Bounds of the model.                                                    *)
(***************************************************************************)
\* longest item array a response body carries
MaxItems == 2

\* caller tasks that share one client
NumTasks == 2

(***************************************************************************)
(* Rust values: Option, typed scalars, Result.                             *)
(***************************************************************************)
None == <<"None">>
Some(x) == <<"Some", x>>
I64(n) == <<"i64", n>>
I32(n) == <<"i32", n>>
Str(s) == <<"String", s>>
Bool(b) == <<"bool", b>>
Ok(x) == <<"Ok", x>>
Err(kind) == <<"Err", kind>>
Pending == <<"Pending">>
NoArgs == <<>>
NoRequest == <<>>
NoResponse == <<"NoResponse">>

(***************************************************************************)
(* Text helpers.                                                           *)
(***************************************************************************)
RECURSIVE Flatten(_)
Flatten(ss) == IF ss = <<>> THEN <<>> ELSE Head(ss) \o Flatten(Tail(ss))

\* index of the first occurrence of symbol c in s, 0 when there is none
FirstIndex(s, c) ==
    IF \E i \in DOMAIN s : s[i] = c
    THEN CHOOSE i \in DOMAIN s : s[i] = c /\ \A j \in 1..(i - 1) : s[j] # c
    ELSE 0

RECURSIVE SplitOn(_, _)
SplitOn(s, c) ==
    LET i == FirstIndex(s, c)
    IN  IF i = 0 THEN <<s>>
        ELSE <<SubSeq(s, 1, i - 1)>> \o SplitOn(SubSeq(s, i + 1, Len(s)), c)

Digits == <<"0", "1", "2", "3", "4", "5", "6", "7", "8", "9">>

RECURSIVE NatText(_)
NatText(n) ==
    IF n < 10 THEN <<Digits[n + 1]>>
    ELSE Append(NatText(n \div 10), Digits[(n % 10) + 1])

\* Display of an integer: decimal digits, a leading "-" when negative
IntText(n) == IF n < 0 THEN <<"-">> \o NatText(-n) ELSE NatText(n)

BoolText(b) == IF b THEN <<"t", "r", "u", "e">> ELSE <<"f", "a", "l", "s", "e">>

\* ToString::to_string of a parameter value
to_string(v) ==
    CASE v[1] = "i64" -> IntText(v[2])
      [] v[1] = "i32" -> IntText(v[2])
      [] v[1] = "bool" -> BoolText(v[2])
      [] v[1] = "String" -> v[2]

(***************************************************************************)
(* application/x-www-form-urlencoded serialisation, as done by             *)
(* Url::parse_with_params and serde_urlencoded::to_string.                 *)
(***************************************************************************)
Letters ==
    {"a", "b", "c", "d", "e", "f", "g", "h", "i", "j", "k", "l", "m", "n", "o",
     "p", "q", "r", "s", "t", "u", "v", "w", "x", "y", "z",
     "A", "B", "C", "D", "E", "F", "G", "H", "I", "J", "K", "L", "M", "N", "O",
     "P", "Q", "R", "S", "T", "U", "V", "W", "X", "Y", "Z"}

Unreserved == Letters \cup {Digits[i] : i \in DOMAIN Digits} \cup {"*", "-", ".", "_"}

\* the two hexadecimal digits of the reserved characters the model uses
PercentCode(c) ==
    CASE c = "&" -> <<"2", "6">>
      [] c = "=" -> <<"3", "D">>
      [] c = "+" -> <<"2", "B">>
      [] c = "?" -> <<"3", "F">>
      [] c = "%" -> <<"2", "5">>
      [] c = "/" -> <<"2", "F">>
      [] c = "#" -> <<"2", "3">>

ByteSerializeChar(c) ==
    IF c \in Unreserved THEN <<c>>
    ELSE IF c = " " THEN <<"+">>
    ELSE <<"%">> \o PercentCode(c)

ByteSerialize(s) == Flatten([i \in DOMAIN s |-> ByteSerializeChar(s[i])])

\* a name is a string literal of the source, made of unreserved characters
PairText(pair) == <<pair[1], "=">> \o ByteSerialize(pair[2])

RECURSIVE FormSerialize(_)
FormSerialize(p) ==
    IF p = <<>> THEN <<>>
    ELSE IF Len(p) = 1 THEN PairText(p[1])
    ELSE PairText(p[1]) \o <<"&">> \o FormSerialize(Tail(p))

\* Url::parse_with_params: query_pairs_mut() opens the query ("?") before the
\* pairs are appended, whether or not there are any
ParseWithParams(url, p) == url \o <<"?">> \o FormSerialize(p)

\* add_param!(p, name, value): push (name, value.to_string()) when value is Some
add_param(p, name, value) ==
    IF value = None THEN p ELSE Append(p, <<name, to_string(value[2])>>)

(***************************************************************************)
(* The operations' query parameters, in the order the source pushes them.  *)
(***************************************************************************)
\* a faulty variant: status pushed without add_param!, as status.unwrap_or_default()
events_params_StatusAlways(a) ==
    LET p0 == <<>>
        p1 == add_param(p0, "limit", a.limit)
        p2 == add_param(p1, "cursor", a.cursor)
        p3 == Append(p2, <<"status", IF a.status = None THEN <<>> ELSE a.status[2][2]>>)
        p4 == add_param(p3, "series_ticker", a.series_ticker)
        p5 == add_param(p4, "with_nested_markets", a.with_nested_markets)
    IN  p5

events_params(a) ==
    LET p0 == <<>>
        p1 == add_param(p0, "limit", a.limit)
        p2 == add_param(p1, "cursor", a.cursor)
        p3 == add_param(p2, "status", a.status)
        p4 == add_param(p3, "series_ticker", a.series_ticker)
        p5 == add_param(p4, "with_nested_markets", a.with_nested_markets)
    IN  p5

\* a faulty variant: status and tickers pushed in the other order
markets_params_Swapped(a) ==
    LET p0 == <<>>
        p1 == add_param(p0, "limit", a.limit)
        p2 == add_param(p1, "cursor", a.cursor)
        p3 == add_param(p2, "event_ticker", a.event_ticker)
        p4 == add_param(p3, "series_ticker", a.series_ticker)
        p5 == add_param(p4, "tickers", a.tickers)
        p6 == add_param(p5, "status", a.status)
        p7 == add_param(p6, "min_close_ts", a.min_close_ts)
        p8 == add_param(p7, "max_close_ts", a.max_close_ts)
    IN  p8

markets_params(a) ==
    LET p0 == <<>>
        p1 == add_param(p0, "limit", a.limit)
        p2 == add_param(p1, "cursor", a.cursor)
        p3 == add_param(p2, "event_ticker", a.event_ticker)
        p4 == add_param(p3, "series_ticker", a.series_ticker)
        p5 == add_param(p4, "status", a.status)
        p6 == add_param(p5, "tickers", a.tickers)
        p7 == add_param(p6, "min_close_ts", a.min_close_ts)
        p8 == add_param(p7, "max_close_ts", a.max_close_ts)
    IN  p8

candlesticks_params(a) ==
    LET p0 == <<>>
        p1 == add_param(p0, "start_ts", a.start_ts)
        p2 == add_param(p1, "end_ts", a.end_ts)
        p3 == add_param(p2, "period_interval", a.period_interval)
    IN  p3

trades_params(a) ==
    LET p0 == <<>>
        p1 == add_param(p0, "limit", a.limit)
        p2 == add_param(p1, "cursor", a.cursor)
        p3 == add_param(p2, "ticker", a.ticker)
        p4 == add_param(p3, "min_ts", a.min_ts)
        p5 == add_param(p4, "max_ts", a.max_ts)
    IN  p5

series_list_params(a) ==
    LET p0 == <<>>
        p1 == add_param(p0, "limit", a.limit)
        p2 == add_param(p1, "cursor", a.cursor)
        p3 == add_param(p2, "category", a.category)
        p4 == add_param(p3, "tags", a.tags)
    IN  p4

(***************************************************************************)
(* The request each operation hands to the transport: client.get(url) or   *)
(* signed_get(path).                                                       *)
(***************************************************************************)
ClientGet(url) == [via |-> "client.get", target |-> url]
SignedGet(path) == [via |-> "signed_get", target |-> path]

events_request(a) ==
    ClientGet(ParseWithParams(<<"base_url", "/events">>, events_params(a)))

event_request(a) ==
    ClientGet(<<"base_url", "/events/">> \o a.event_ticker)

markets_request(a) ==
    ClientGet(ParseWithParams(<<"base_url", "/markets">>, markets_params(a)))

market_request(a) ==
    ClientGet(<<"base_url", "/markets/">> \o a.ticker)

\* a faulty variant: depth sent through the general encoder
orderbook_request_Encoded(a) ==
    ClientGet(ParseWithParams(
        <<"base_url", "/markets/">> \o a.ticker \o <<"/orderbook">>,
        add_param(<<>>, "depth", a.depth)))

orderbook_request(a) ==
    LET url == <<"base_url", "/markets/">> \o a.ticker \o <<"/orderbook">>
    IN  ClientGet(IF a.depth # None
                  THEN url \o <<"?", "depth", "=">> \o IntText(a.depth[2][2])
                  ELSE url)

candlesticks_request(a) ==
    ClientGet(ParseWithParams(
        <<"base_url", "/series/">> \o a.series_ticker \o <<"/markets/">>
            \o a.ticker \o <<"/candlesticks">>,
        candlesticks_params(a)))

trades_request(a) ==
    ClientGet(ParseWithParams(<<"base_url", "/markets/trades">>, trades_params(a)))

series_list_request(a) ==
    LET p == series_list_params(a)
    IN  SignedGet(IF p = <<>> THEN <<"/series">>
                  ELSE <<"/series", "?">> \o FormSerialize(p))

series_request(a) ==
    ClientGet(<<"base_url", "/series/">> \o a.series_ticker)

\* kalshi/src/exchange.rs: the two exchange operations take no argument
exchange_status_request == ClientGet(<<"base_url", "/exchange/status">>)

exchange_schedule_request == ClientGet(<<"base_url", "/exchange/schedule">>)

(***************************************************************************)
(* JSON values as they arrive on the wire.  An object is a function from   *)
(* its keys to values; a key the payload omits is not in its domain.       *)
(***************************************************************************)
JNull == <<"null">>
JStr(s) == <<"str", s>>
JNum(n) == <<"num", n>>
JBool(b) == <<"bool", b>>
JArr(xs) == <<"arr", xs>>
JObj(f) == <<"obj", f>>

\* marks a key left out when an object is put together
Absent == <<"absent">>

ObjOf(pairs) ==
    LET kept == {q \in pairs : q[2] # Absent}
    IN  [k \in {q[1] : q \in kept} |-> (CHOOSE q \in kept : q[1] = k)[2]]

Drop(obj, k) == [x \in (DOMAIN obj) \ {k} |-> obj[x]]
With(obj, k, v) == (k :> v) @@ obj

(***************************************************************************)
(* The Rust types of the models and of the response wrappers.              *)
(***************************************************************************)
TString == <<"String">>
TI64 == <<"i64">>
TI32 == <<"i32">>
TF64 == <<"f64">>
TBool == <<"bool">>
TValue == <<"Value">>
TSettlementResult == <<"Enum", "SettlementResult">>
TOption(t) == <<"Option", t>>
TVec(t) == <<"Vec", t>>
TStruct(name) == <<"Struct", name>>

\* attr: "plain", "default", "null_to_empty_vec" (default + deserialize_with)
\* or "flatten"
F(name, ty, attr) == [name |-> name, ty |-> ty, attr |-> attr]

EventFields ==
    << F("event_ticker", TString, "plain"),
       F("series_ticker", TString, "plain"),
       F("title", TString, "plain"),
       F("sub_title", TString, "plain"),
       F("mutually_exclusive", TBool, "plain"),
       F("category", TString, "plain"),
       F("strike_date", TOption(TString), "plain"),
       F("strike_period", TOption(TString), "plain"),
       F("markets", TOption(TVec(TStruct("Market"))), "plain") >>

MarketFields ==
    << F("ticker", TString, "plain"),
       F("event_ticker", TString, "plain"),
       F("market_type", TString, "plain"),
       F("title", TString, "plain"),
       F("subtitle", TString, "plain"),
       F("yes_sub_title", TString, "plain"),
       F("no_sub_title", TString, "plain"),
       F("open_time", TString, "plain"),
       F("close_time", TString, "plain"),
       F("expected_expiration_time", TOption(TString), "plain"),
       F("expiration_time", TOption(TString), "plain"),
       F("latest_expiration_time", TString, "plain"),
       F("settlement_timer_seconds", TI64, "plain"),
       F("status", TString, "plain"),
       F("response_price_units", TString, "plain"),
       F("notional_value", TI64, "plain"),
       F("tick_size", TI64, "plain"),
       F("yes_bid", TI64, "plain"),
       F("yes_ask", TI64, "plain"),
       F("no_bid", TI64, "plain"),
       F("no_ask", TI64, "plain"),
       F("last_price", TI64, "plain"),
       F("previous_yes_bid", TI64, "plain"),
       F("previous_yes_ask", TI64, "plain"),
       F("previous_price", TI64, "plain"),
       F("volume", TI64, "plain"),
       F("volume_24h", TI64, "plain"),
       F("liquidity", TI64, "plain"),
       F("open_interest", TI64, "plain"),
       F("result", TSettlementResult, "plain"),
       F("cap_strike", TOption(TF64), "plain"),
       F("can_close_early", TBool, "plain"),
       F("expiration_value", TString, "plain"),
       F("category", TString, "plain"),
       F("risk_limit_cents", TI64, "plain"),
       F("strike_type", TOption(TString), "plain"),
       F("floor_strike", TOption(TF64), "plain"),
       F("rules_primary", TString, "plain"),
       F("rules_secondary", TString, "plain"),
       F("settlement_value", TOption(TString), "plain"),
       F("functional_strike", TOption(TString), "plain") >>

SeriesFields ==
    << F("ticker", TOption(TString), "default"),
       F("frequency", TOption(TString), "default"),
       F("title", TOption(TString), "default"),
       F("category", TOption(TString), "default"),
       F("tags", TVec(TString), "null_to_empty_vec"),
       F("settlement_sources", TVec(TStruct("SettlementSource")), "null_to_empty_vec"),
       F("contract_url", TOption(TString), "default"),
       F("extra", TValue, "flatten") >>

MultivariateEventCollectionFields ==
    << F("collection_ticker", TString, "plain"),
       F("title", TString, "plain"),
       F("description", TString, "plain"),
       F("category", TString, "plain"),
       F("tags", TVec(TString), "null_to_empty_vec"),
       F("markets", TVec(TStruct("Market")), "null_to_empty_vec"),
       F("created_time", TString, "plain"),
       F("updated_time", TString, "plain") >>

CandleFields ==
    << F("start_ts", TI64, "plain"),
       F("end_ts", TI64, "plain"),
       F("yes_open", TI32, "plain"),
       F("yes_high", TI32, "plain"),
       F("yes_low", TI32, "plain"),
       F("yes_close", TI32, "plain"),
       F("no_open", TI32, "plain"),
       F("no_high", TI32, "plain"),
       F("no_low", TI32, "plain"),
       F("no_close", TI32, "plain"),
       F("volume", TI64, "plain"),
       F("open_interest", TI64, "plain") >>

OrderbookFields ==
    << F("yes", TOption(TVec(TVec(TI32))), "plain"),
       F("no", TOption(TVec(TVec(TI32))), "plain") >>

TradeFields ==
    << F("trade_id", TString, "plain"),
       F("taker_side", TString, "plain"),
       F("ticker", TString, "plain"),
       F("count", TI32, "plain"),
       F("yes_price", TI32, "plain"),
       F("no_price", TI32, "plain"),
       F("created_time", TString, "plain") >>

SettlementSourceFields ==
    << F("url", TOption(TString), "default"),
       F("name", TOption(TString), "default") >>

EventListResponseFields ==
    << F("cursor", TOption(TString), "plain"),
       F("events", TVec(TStruct("Event")), "plain") >>

MarketListResponseFields ==
    << F("cursor", TOption(TString), "plain"),
       F("markets", TVec(TStruct("Market")), "plain") >>

\* the struct get_series_list declares in its body and decodes into
LocalSeriesListResponseFields ==
    << F("cursor", TOption(TString), "plain"),
       F("series", TOption(TVec(TStruct("Series"))), "plain") >>

\* a faulty variant: the cursor declared String instead of Option<String>
TradeListResponseFields_CursorRequired ==
    << F("cursor", TString, "plain"),
       F("trades", TVec(TStruct("Trade")), "plain") >>

TradeListResponseFields ==
    << F("cursor", TOption(TString), "plain"),
       F("trades", TVec(TStruct("Trade")), "plain") >>

CandlestickListResponseFields ==
    << F("cursor", TOption(TString), "plain"),
       F("candlesticks", TVec(TStruct("Candle")), "plain") >>

SingleEventResponseFields ==
    << F("event", TStruct("Event"), "plain"),
       F("markets", TOption(TVec(TStruct("Market"))), "plain") >>

SingleMarketResponseFields == << F("market", TStruct("Market"), "plain") >>

SingleSeriesResponseFields == << F("series", TStruct("Series"), "plain") >>

OrderbookResponseFields == << F("orderbook", TStruct("Orderbook"), "plain") >>

ExchangeStatusFields ==
    << F("trading_active", TBool, "plain"),
       F("exchange_active", TBool, "plain") >>

DayScheduleFields ==
    << F("open_time", TString, "plain"),
       F("close_time", TString, "plain") >>

StandardHoursFields ==
    << F("start_time", TString, "plain"),
       F("end_time", TString, "plain"),
       F("monday", TVec(TStruct("DaySchedule")), "plain"),
       F("tuesday", TVec(TStruct("DaySchedule")), "plain"),
       F("wednesday", TVec(TStruct("DaySchedule")), "plain"),
       F("thursday", TVec(TStruct("DaySchedule")), "plain"),
       F("friday", TVec(TStruct("DaySchedule")), "plain"),
       F("saturday", TVec(TStruct("DaySchedule")), "plain"),
       F("sunday", TVec(TStruct("DaySchedule")), "plain") >>

MaintenanceWindowFields ==
    << F("start_datetime", TString, "plain"),
       F("end_datetime", TString, "plain") >>

ExchangeScheduleStandardFields ==
    << F("standard_hours", TVec(TStruct("StandardHours")), "plain"),
       F("maintenance_windows", TVec(TStruct("MaintenanceWindow")), "plain") >>

ExchangeScheduleResponseFields ==
    << F("schedule", TStruct("ExchangeScheduleStandard"), "plain") >>

Fields(name) ==
    CASE name = "Event" -> EventFields
      [] name = "Market" -> MarketFields
      [] name = "Series" -> SeriesFields
      [] name = "MultivariateEventCollection" -> MultivariateEventCollectionFields
      [] name = "Candle" -> CandleFields
      [] name = "Orderbook" -> OrderbookFields
      [] name = "Trade" -> TradeFields
      [] name = "SettlementSource" -> SettlementSourceFields
      [] name = "EventListResponse" -> EventListResponseFields
      [] name = "MarketListResponse" -> MarketListResponseFields
      [] name = "get_series_list::SeriesListResponse" -> LocalSeriesListResponseFields
      [] name = "TradeListResponse" -> TradeListResponseFields
      [] name = "CandlestickListResponse" -> CandlestickListResponseFields
      [] name = "SingleEventResponse" -> SingleEventResponseFields
      [] name = "SingleMarketResponse" -> SingleMarketResponseFields
      [] name = "SingleSeriesResponse" -> SingleSeriesResponseFields
      [] name = "OrderbookResponse" -> OrderbookResponseFields
      [] name = "ExchangeStatus" -> ExchangeStatusFields
      [] name = "DaySchedule" -> DayScheduleFields
      [] name = "StandardHours" -> StandardHoursFields
      [] name = "MaintenanceWindow" -> MaintenanceWindowFields
      [] name = "ExchangeScheduleStandard" -> ExchangeScheduleStandardFields
      [] name = "ExchangeScheduleResponse" -> ExchangeScheduleResponseFields

FieldNames(fs) == {fs[i].name : i \in DOMAIN fs}

\* the keys of the wire object a struct's typed fields claim
TypedKeys(fs) == {fs[i].name : i \in {j \in DOMAIN fs : fs[j].attr # "flatten"}}

(***************************************************************************)
(* SettlementResult: the variants with their serde attributes.  The enum   *)
(* carries rename_all = "lowercase"; a variant's own rename overrides it.  *)
(***************************************************************************)
Yes == <<"Y", "e", "s">>
No == <<"N", "o">>
Void == <<"V", "o", "i", "d">>
AllNo == <<"A", "l", "l", "N", "o">>
AllYes == <<"A", "l", "l", "Y", "e", "s">>

SettlementResultVariants ==
    << [ident |-> Yes, rename |-> None],
       [ident |-> No, rename |-> None],
       [ident |-> Void, rename |-> Some(<<>>)],
       [ident |-> AllNo, rename |-> Some(<<"a", "l", "l", "_", "n", "o">>)],
       [ident |-> AllYes, rename |-> Some(<<"a", "l", "l", "_", "y", "e", "s">>)] >>

UpperCase ==
    <<"A", "B", "C", "D", "E", "F", "G", "H", "I", "J", "K", "L", "M", "N", "O",
      "P", "Q", "R", "S", "T", "U", "V", "W", "X", "Y", "Z">>

LowerCase ==
    <<"a", "b", "c", "d", "e", "f", "g", "h", "i", "j", "k", "l", "m", "n", "o",
      "p", "q", "r", "s", "t", "u", "v", "w", "x", "y", "z">>

ToLowerChar(c) ==
    IF \E i \in DOMAIN UpperCase : UpperCase[i] = c
    THEN LowerCase[CHOOSE i \in DOMAIN UpperCase : UpperCase[i] = c]
    ELSE c

ToLower(s) == [i \in DOMAIN s |-> ToLowerChar(s[i])]

\* a faulty variant: rename_all alone, the variants' own rename attributes lost
WireName_RenameAllOnly(variant) == ToLower(variant.ident)

\* the token serde writes and accepts for a variant
WireName(variant) ==
    IF variant.rename # None THEN variant.rename[2] ELSE ToLower(variant.ident)

VariantOf(ident) ==
    SettlementResultVariants[
        CHOOSE i \in DOMAIN SettlementResultVariants :
            SettlementResultVariants[i].ident = ident]

\* Serialize for SettlementResult
SerializeSettlementResult(v) == JStr(WireName(VariantOf(v)))

\* a faulty variant: an unrecognised token falls back to Void (as #[serde(other)] would)
DeserializeSettlementResult_Defaulting(json) ==
    IF json[1] # "str" THEN Err("decode")
    ELSE LET hits == {i \in DOMAIN SettlementResultVariants :
                         WireName(SettlementResultVariants[i]) = json[2]}
         IN  IF hits = {} THEN Ok(Void)
             ELSE Ok(SettlementResultVariants[CHOOSE i \in hits : TRUE].ident)

\* Deserialize for SettlementResult
DeserializeSettlementResult(json) ==
    IF json[1] # "str" THEN Err("decode")
    ELSE LET hits == {i \in DOMAIN SettlementResultVariants :
                         WireName(SettlementResultVariants[i]) = json[2]}
         IN  IF hits = {} THEN Err("decode")
             ELSE Ok(SettlementResultVariants[CHOOSE i \in hits : TRUE].ident)

(***************************************************************************)
(* Decoding a JSON value into a Rust type, as serde's derived Deserialize  *)
(* does it.  A String is decoded to its text, a number to the integer, an  *)
(* Option to None / Some, a Vec to a sequence, a struct to a function from *)
(* its field names.  The payloads of the model carry objects (or scalars)  *)
(* wherever a struct is expected, and numbers that fit the integer types.  *)
(***************************************************************************)
IsOk(r) == r[1] = "Ok"
IsErr(r) == r[1] = "Err"

Default(ty) == IF ty[1] = "Option" THEN None ELSE <<>>

RECURSIVE Decode(_, _)
RECURSIVE DecodeVec(_, _)
RECURSIVE DecodeStruct(_, _)
RECURSIVE DecodeField(_, _, _)
RECURSIVE null_to_empty_vec(_, _)

\* Vec<T>: every element must decode; the first error is the result
DecodeVec(ty, xs) ==
    LET rs == [i \in DOMAIN xs |-> Decode(ty, xs[i])]
    IN  IF \E i \in DOMAIN xs : IsErr(rs[i]) THEN Err("decode")
        ELSE Ok([i \in DOMAIN xs |-> rs[i][2]])

\* a faulty variant: the flattened map keeps every key of the object
ExtraOf_EveryKey(fs, obj) == obj

\* #[serde(flatten)] extra: the keys no typed field claims, values as they are
ExtraOf(fs, obj) == [k \in (DOMAIN obj) \ TypedKeys(fs) |-> obj[k]]

\* a faulty variant: Vec::<T>::deserialize(d), which rejects null
null_to_empty_vec_Strict(ty, json) == Decode(TVec(ty), json)

\* opt = Option::<Vec<T>>::deserialize(d)?; Ok(opt.unwrap_or_default())
null_to_empty_vec(ty, json) ==
    LET opt == Decode(TOption(TVec(ty)), json)
    IN  IF IsErr(opt) THEN opt
        ELSE Ok(IF opt[2] = None THEN <<>> ELSE opt[2][2])

DecodeField(fs, i, obj) ==
    LET f == fs[i]
    IN  IF f.attr = "flatten" THEN Ok(ExtraOf(fs, obj))
        ELSE IF f.name \notin DOMAIN obj
        THEN IF f.attr \in {"default", "null_to_empty_vec"} THEN Ok(Default(f.ty))
             ELSE IF f.ty[1] = "Option" THEN Ok(None)
             ELSE Err("decode")
        ELSE IF f.attr = "null_to_empty_vec"
        THEN null_to_empty_vec(f.ty[2], obj[f.name])
        ELSE Decode(f.ty, obj[f.name])

DecodeStruct(name, json) ==
    IF json[1] # "obj" THEN Err("decode")
    ELSE LET fs == Fields(name)
             rs == [i \in DOMAIN fs |-> DecodeField(fs, i, json[2])]
         IN  IF \E i \in DOMAIN fs : IsErr(rs[i]) THEN Err("decode")
             ELSE Ok([n \in FieldNames(fs) |->
                        rs[CHOOSE i \in DOMAIN fs : fs[i].name = n][2]])

Decode(ty, json) ==
    CASE ty[1] = "String" ->
            IF json[1] = "str" THEN Ok(json[2]) ELSE Err("decode")
      [] ty[1] \in {"i64", "i32", "f64"} ->
            IF json[1] = "num" THEN Ok(json[2]) ELSE Err("decode")
      [] ty[1] = "bool" ->
            IF json[1] = "bool" THEN Ok(json[2]) ELSE Err("decode")
      [] ty[1] = "Value" -> Ok(json)
      [] ty[1] = "Enum" -> DeserializeSettlementResult(json)
      [] ty[1] = "Option" ->
            IF json[1] = "null" THEN Ok(None)
            ELSE LET r == Decode(ty[2], json)
                 IN  IF IsOk(r) THEN Ok(Some(r[2])) ELSE r
      [] ty[1] = "Vec" ->
            IF json[1] = "arr" THEN DecodeVec(ty[2], json[2]) ELSE Err("decode")
      [] ty[1] = "Struct" -> DecodeStruct(ty[2], json)

(***************************************************************************)
(* What each operation returns for a response body: the wrapper it decodes *)
(* the body into, and the fields it hands back.                            *)
(***************************************************************************)
\* a faulty variant: only the first event of the page is handed back
events_return_FirstOnly(body) ==
    LET res == DecodeStruct("EventListResponse", body)
    IN  IF IsErr(res) THEN res
        ELSE Ok(<<res[2]["cursor"],
                  SubSeq(res[2]["events"], 1, IF res[2]["events"] = <<>> THEN 0 ELSE 1)>>)

events_return(body) ==
    LET res == DecodeStruct("EventListResponse", body)
    IN  IF IsErr(res) THEN res ELSE Ok(<<res[2]["cursor"], res[2]["events"]>>)

event_return(body) ==
    LET res == DecodeStruct("SingleEventResponse", body)
    IN  IF IsErr(res) THEN res ELSE Ok(res[2]["event"])

\* a faulty variant: the markets are handed back last first
markets_return_Reversed(body) ==
    LET res == DecodeStruct("MarketListResponse", body)
        ms == res[2]["markets"]
    IN  IF IsErr(res) THEN res
        ELSE Ok(<<res[2]["cursor"], [i \in DOMAIN ms |-> ms[Len(ms) + 1 - i]]>>)

markets_return(body) ==
    LET res == DecodeStruct("MarketListResponse", body)
    IN  IF IsErr(res) THEN res ELSE Ok(<<res[2]["cursor"], res[2]["markets"]>>)

market_return(body) ==
    LET res == DecodeStruct("SingleMarketResponse", body)
    IN  IF IsErr(res) THEN res ELSE Ok(res[2]["market"])

orderbook_return(body) ==
    LET res == DecodeStruct("OrderbookResponse", body)
    IN  IF IsErr(res) THEN res ELSE Ok(res[2]["orderbook"])

candlesticks_return(body) ==
    LET res == DecodeStruct("CandlestickListResponse", body)
    IN  IF IsErr(res) THEN res ELSE Ok(res[2]["candlesticks"])

trades_return(body) ==
    LET res == DecodeStruct("TradeListResponse", body)
    IN  IF IsErr(res) THEN res ELSE Ok(<<res[2]["cursor"], res[2]["trades"]>>)

series_list_return(body) ==
    LET res == DecodeStruct("get_series_list::SeriesListResponse", body)
    IN  IF IsErr(res) THEN res
        ELSE Ok(<<res[2]["cursor"],
                  IF res[2]["series"] = None THEN <<>> ELSE res[2]["series"][2]>>)

series_return(body) ==
    LET res == DecodeStruct("SingleSeriesResponse", body)
    IN  IF IsErr(res) THEN res ELSE Ok(res[2]["series"])

\* get_exchange_status decodes the body itself, without a wrapper
exchange_status_return(body) == DecodeStruct("ExchangeStatus", body)

exchange_schedule_return(body) ==
    LET res == DecodeStruct("ExchangeScheduleResponse", body)
    IN  IF IsErr(res) THEN res ELSE Ok(res[2]["schedule"])

TransportErr == <<"TransportErr">>
Body(json) == <<"Body", json>>

OpReturn(o, body) ==
    CASE o = "get_events" -> events_return(body)
      [] o = "get_event" -> event_return(body)
      [] o = "get_markets" -> markets_return(body)
      [] o = "get_market" -> market_return(body)
      [] o \in {"get_orderbook", "get_orderbook_full"} -> orderbook_return(body)
      [] o = "get_market_candlesticks" -> candlesticks_return(body)
      [] o = "get_trades" -> trades_return(body)
      [] o = "get_series_list" -> series_list_return(body)
      [] o = "get_series" -> series_return(body)
      [] o = "get_exchange_status" -> exchange_status_return(body)
      [] o = "get_exchange_schedule" -> exchange_schedule_return(body)

\* a faulty variant: a failure is swallowed and an empty value handed back
finish_Swallowing(o, resp) ==
    IF resp = TransportErr THEN Ok(<<>>)
    ELSE IF IsErr(OpReturn(o, resp[2])) THEN Ok(<<>>) ELSE OpReturn(o, resp[2])

\* `.send().await?` hands a transport failure to the caller; `.json().await?`
\* (signed_get for the series list) decodes the body
finish(o, resp) ==
    IF resp = TransportErr THEN Err("transport") ELSE OpReturn(o, resp[2])

(***************************************************************************)
(* The inputs the model draws: argument values and response payloads.      *)
(***************************************************************************)
TxtOpen == <<"o", "p", "e", "n">>
TxtSpecial == <<"a", " ", "&", "=">>
TxtEmpty == <<>>
TxtAbc == <<"a", "b", "c">>
TxtMaybe == <<"m", "a", "y", "b", "e">>
TxtYes == <<"y", "e", "s">>

I64Vals == {2, -13}
I32Vals == {10, 1440}
StrVals == {TxtOpen, TxtSpecial, TxtEmpty}
TickerVals == {<<"K", "X", "-", "1">>}

WideI64 == {None} \cup {Some(I64(n)) : n \in I64Vals}
WideI32 == {None} \cup {Some(I32(n)) : n \in I32Vals}
WideStr == {None} \cup {Some(Str(t)) : t \in StrVals}
WideBool == {None, Some(Bool(TRUE)), Some(Bool(FALSE))}
OnlyNone == {None}

\* a page size smaller than the longest item array of the payloads
PageLimits == {None, Some(I64(1))}

SampleJson(ty) ==
    LET t == IF ty[1] = "Option" THEN ty[2] ELSE ty
    IN  CASE t[1] = "String" -> JStr(<<"s">>)
          [] t[1] \in {"i64", "i32", "f64"} -> JNum(1)
          [] t[1] = "bool" -> JBool(TRUE)
          [] t[1] = "Enum" -> JStr(TxtYes)
          [] t[1] = "Vec" -> JArr(<<>>)

\* an object with every typed key of the struct, each with a value of its type
FullObj(fs) ==
    [k \in TypedKeys(fs) |-> SampleJson(fs[CHOOSE i \in DOMAIN fs : fs[i].name = k].ty)]

MarketA ==
    JObj(Drop(With(With(FullObj(MarketFields), "ticker", JStr(<<"M", "A">>)),
                   "strike_type", JNull), "cap_strike"))
MarketB ==
    JObj(With(With(FullObj(MarketFields), "ticker", JStr(<<"M", "B">>)),
              "result", JStr(<<>>)))
MarketBadToken == JObj(With(MarketA[2], "result", JStr(TxtMaybe)))
MarketMissingField == JObj(Drop(MarketA[2], "yes_bid"))
MarketItems == {MarketA, MarketB, MarketBadToken, MarketMissingField}

EventA ==
    JObj(Drop(With(FullObj(EventFields), "event_ticker", JStr(<<"E", "A">>)),
              "markets"))
EventB ==
    JObj(With(With(FullObj(EventFields), "event_ticker", JStr(<<"E", "B">>)),
              "markets", JArr(<<MarketA, MarketB>>)))
EventBadNested == JObj(With(EventA[2], "markets", JArr(<<MarketBadToken>>)))
EventMissingField == JObj(Drop(EventA[2], "title"))
EventItems == {EventA, EventB, EventBadNested, EventMissingField}

TradeA == JObj(With(FullObj(TradeFields), "trade_id", JStr(<<"T", "A">>)))
TradeB == JObj(With(FullObj(TradeFields), "trade_id", JStr(<<"T", "B">>)))
TradeMissingField == JObj(Drop(TradeA[2], "count"))
TradeBadType == JObj(With(TradeA[2], "count", JStr(<<"7">>)))
TradeItems == {TradeA, TradeB, TradeMissingField, TradeBadType}

CandleA == JObj(With(FullObj(CandleFields), "start_ts", JNum(100)))
CandleB == JObj(With(FullObj(CandleFields), "start_ts", JNum(160)))
CandleMissingField == JObj(Drop(CandleA[2], "volume"))
CandleBadType == JObj(With(CandleA[2], "yes_open", JNull))
CandleItems == {CandleA, CandleB, CandleMissingField, CandleBadType}

SourceA == JObj(("name" :> JStr(<<"n">>)) @@ ("url" :> JNull))
SeriesA ==
    JObj(With(With(FullObj(SeriesFields), "tags", JArr(<<JStr(<<"x">>), JStr(<<"y">>)>>)),
              "settlement_sources", JArr(<<SourceA, JObj(<<>>)>>)))
SeriesEmpty == JObj(<<>>)
SeriesExtra ==
    JObj(With(With(SeriesA[2], "tags", JNull), "new_field", JNum(42)))
SeriesBadType == JObj(With(SeriesA[2], "tags", JStr(<<"x">>)))
SeriesItems == {SeriesA, SeriesEmpty, SeriesExtra, SeriesBadType}

SeqsUpTo(V, n) == UNION {[1..k -> V] : k \in 0..n}

CursorShapes == {Absent, JNull, JStr(TxtAbc), JNum(7)}

\* an item-array field: omitted, null, not an array, or an array of items
ItemsShapes(V) ==
    {Absent, JNull, JStr(<<"x">>)} \cup {JArr(xs) : xs \in SeqsUpTo(V, MaxItems)}

NotAnObject == JStr(<<"o", "o", "p", "s">>)

ListBodies(key, V) ==
    {JObj(ObjOf({<<"cursor", c>>, <<key, xs>>})) :
        c \in CursorShapes, xs \in ItemsShapes(V)} \cup {NotAnObject}

EventBodies ==
    {JObj(ObjOf({<<"event", e>>, <<"markets", m>>, <<"request_id", x>>})) :
        e \in EventItems \cup {Absent},
        m \in ItemsShapes(MarketItems),
        x \in {Absent, JNum(9)}} \cup {NotAnObject}

MarketBodies ==
    {JObj(ObjOf({<<"market", m>>, <<"request_id", x>>})) :
        m \in MarketItems \cup {Absent, JNull}, x \in {Absent, JNum(9)}}
    \cup {NotAnObject}

SeriesBodies ==
    {JObj(ObjOf({<<"series", x>>})) : x \in SeriesItems \cup {Absent, JNull}}
    \cup {NotAnObject}

Levels == JArr(<<JArr(<<JNum(40), JNum(3)>>), JArr(<<JNum(41), JNum(5)>>)>>)
OrderbookItems ==
    {JObj(("yes" :> Levels) @@ ("no" :> JNull)),
     JObj(<<>>),
     JObj(("yes" :> JArr(<<>>)) @@ ("no" :> Levels)),
     JObj("yes" :> JStr(<<"x">>))}

OrderbookBodies ==
    {JObj(ObjOf({<<"orderbook", x>>})) : x \in OrderbookItems \cup {Absent, JNull}}
    \cup {NotAnObject}

BoolShapes == {Absent, JNull, JBool(TRUE), JBool(FALSE), JStr(<<"x">>)}

ExchangeStatusBodies ==
    {JObj(ObjOf({<<"trading_active", t>>, <<"exchange_active", e>>})) :
        t \in BoolShapes, e \in BoolShapes} \cup {NotAnObject, JNull}

DayA == JObj(("open_time" :> JStr(<<"9">>)) @@ ("close_time" :> JStr(<<"5">>)))
DayMissingField == JObj("open_time" :> JStr(<<"9">>))

StandardHoursOf(monday) ==
    JObj(With(FullObj(StandardHoursFields), "monday", monday))

WindowA ==
    JObj(("start_datetime" :> JStr(<<"s">>)) @@ ("end_datetime" :> JStr(<<"s">>)))

HoursShapes ==
    {Absent, JNull, JArr(<<>>),
     JArr(<<StandardHoursOf(JArr(<<DayA>>))>>),
     JArr(<<StandardHoursOf(JArr(<<DayA, DayMissingField>>))>>),
     JArr(<<StandardHoursOf(JNull)>>),
     JArr(<<JObj(Drop(FullObj(StandardHoursFields), "sunday"))>>)}

WindowShapes == {Absent, JNull, JArr(<<>>), JArr(<<WindowA>>), JArr(<<JObj(<<>>)>>)}

ExchangeScheduleBodies ==
    {JObj("schedule" :> JObj(ObjOf({<<"standard_hours", h>>,
                                    <<"maintenance_windows", w>>}))) :
        h \in HoursShapes, w \in WindowShapes}
    \cup {JObj(<<>>), JObj("schedule" :> JNull), NotAnObject}

Bodies(o) ==
    CASE o = "get_events" -> ListBodies("events", EventItems)
      [] o = "get_event" -> EventBodies
      [] o = "get_markets" -> ListBodies("markets", MarketItems)
      [] o = "get_market" -> MarketBodies
      [] o \in {"get_orderbook", "get_orderbook_full"} -> OrderbookBodies
      [] o = "get_market_candlesticks" -> ListBodies("candlesticks", CandleItems)
      [] o = "get_trades" -> ListBodies("trades", TradeItems)
      [] o = "get_series_list" -> ListBodies("series", SeriesItems)
      [] o = "get_series" -> SeriesBodies
      [] o = "get_exchange_status" -> ExchangeStatusBodies
      [] o = "get_exchange_schedule" -> ExchangeScheduleBodies

\* a well-formed page without items, for the runs that vary the arguments
EmptyPage(o) ==
    CASE o = "get_events" -> JObj(("cursor" :> JNull) @@ ("events" :> JArr(<<>>)))
      [] o = "get_event" -> JObj("event" :> EventA)
      [] o = "get_markets" -> JObj(("cursor" :> JNull) @@ ("markets" :> JArr(<<>>)))
      [] o = "get_market" -> JObj("market" :> MarketA)
      [] o \in {"get_orderbook", "get_orderbook_full"} -> JObj("orderbook" :> JObj(<<>>))
      [] o = "get_market_candlesticks" ->
            JObj(("cursor" :> JNull) @@ ("candlesticks" :> JArr(<<>>)))
      [] o = "get_trades" -> JObj(("cursor" :> JNull) @@ ("trades" :> JArr(<<>>)))
      [] o = "get_series_list" -> JObj(("cursor" :> JNull) @@ ("series" :> JArr(<<>>)))
      [] o = "get_series" -> JObj("series" :> SeriesA)

WideResponses(o) == {TransportErr} \cup {Body(b) : b \in Bodies(o)}
NarrowResponses(o) == {TransportErr, Body(EmptyPage(o))}

\* payloads handed straight to the public models' Deserialize
ResultTokens ==
    {WireName(SettlementResultVariants[i]) : i \in DOMAIN SettlementResultVariants}

SettlementResultPayloads ==
    {JStr(t) : t \in ResultTokens \cup {TxtMaybe, Yes, ToLower(Void), ToLower(AllNo)}}
    \cup {JNull, JNum(1)}

MarketPayloads ==
    {JObj(Drop(MarketB[2], k)) : k \in TypedKeys(MarketFields)}
    \cup {JObj(With(MarketB[2], k, JNull)) : k \in TypedKeys(MarketFields)}
    \cup {JObj(With(MarketB[2], "result", r)) : r \in SettlementResultPayloads}
    \cup {JObj(With(MarketB[2], "new_field", JNum(42)))}

TagShapes == {Absent, JNull, JArr(<<>>), JArr(<<JStr(<<"x">>), JStr(<<"y">>)>>), JStr(<<"x">>)}
SourceShapes == {Absent, JNull, JArr(<<>>), JArr(<<SourceA, JObj(<<>>)>>)}

SeriesPayloads ==
    {JObj(ObjOf({<<"ticker", t>>, <<"frequency", o>>, <<"title", o>>,
                 <<"category", o>>, <<"contract_url", o>>, <<"tags", g>>,
                 <<"settlement_sources", ss>>, <<"new_field", n>>,
                 <<"volume", m>>})) :
        t \in {Absent, JNull, JStr(<<"K", "X">>)},
        o \in {Absent, JStr(<<"s">>)},
        g \in TagShapes,
        ss \in SourceShapes,
        n \in {Absent, JNull, JNum(42)},
        m \in {Absent, JObj("day" :> JArr(<<JNum(1), JNull>>))}}

CollectionMarketShapes ==
    {Absent, JNull, JArr(<<>>), JArr(<<MarketA, MarketB>>), JArr(<<MarketBadToken>>)}

CollectionPayloads ==
    {JObj(ObjOf({<<"collection_ticker", JStr(<<"C", "1">>)>>, <<"title", JStr(<<"s">>)>>,
                 <<"description", d>>, <<"category", JStr(<<"s">>)>>,
                 <<"created_time", JStr(<<"s">>)>>, <<"updated_time", JStr(<<"s">>)>>,
                 <<"tags", g>>, <<"markets", m>>})) :
        d \in {Absent, JStr(<<"s">>)}, g \in TagShapes, m \in CollectionMarketShapes}

ModelTypes ==
    {TSettlementResult, TStruct("Market"), TStruct("Series"),
     TStruct("MultivariateEventCollection")}

Payloads(ty) ==
    CASE ty = TSettlementResult -> SettlementResultPayloads
      [] ty = TStruct("Market") -> MarketPayloads
      [] ty = TStruct("Series") -> SeriesPayloads
      [] ty = TStruct("MultivariateEventCollection") -> CollectionPayloads

SettlementResults == {Yes, No, Void, AllNo, AllYes}

(***************************************************************************)
(* The state machine.  A call builds its request and hands it to the       *)
(* transport (pc = "awaiting"); when the transport answers, the call       *)
(* decodes the body and returns (pc = "done").                             *)
(***************************************************************************)
Tasks == 1 .. NumTasks

\* a caller task that has no call in progress
IdleTask ==
    [pc |-> "idle", op |-> "none", args |-> NoArgs, request |-> NoRequest,
     response |-> NoResponse, result |-> Pending]

Init ==
    /\ tasks = [t \in Tasks |-> IdleTask]
    /\ pc = "idle"
    /\ op = "none"
    /\ args = NoArgs
    /\ request = NoRequest
    /\ response = NoResponse
    /\ result = Pending
    /\ nsent = 0

Call(o, a, req) ==
    /\ pc = "idle"
    /\ pc' = "awaiting"
    /\ op' = o
    /\ args' = a
    /\ request' = req
    /\ nsent' = 1
    /\ UNCHANGED <<response, result, tasks>>

get_events(limit, cursor, status, series_ticker, with_nested_markets) ==
    LET a == [limit |-> limit, cursor |-> cursor, status |-> status,
              series_ticker |-> series_ticker,
              with_nested_markets |-> with_nested_markets]
    IN  Call("get_events", a, events_request(a))

get_event(event_ticker) ==
    LET a == [event_ticker |-> event_ticker]
    IN  Call("get_event", a, event_request(a))

get_markets(limit, cursor, event_ticker, series_ticker, status, tickers, min_close_ts, max_close_ts) ==
    LET a == [limit |-> limit, cursor |-> cursor, event_ticker |-> event_ticker,
              series_ticker |-> series_ticker, status |-> status,
              tickers |-> tickers, min_close_ts |-> min_close_ts,
              max_close_ts |-> max_close_ts]
    IN  Call("get_markets", a, markets_request(a))

get_market(ticker) ==
    LET a == [ticker |-> ticker]
    IN  Call("get_market", a, market_request(a))

get_orderbook(ticker, depth) ==
    LET a == [ticker |-> ticker, depth |-> depth]
    IN  Call("get_orderbook", a, orderbook_request(a))

get_orderbook_full(ticker) ==
    Call("get_orderbook_full", [ticker |-> ticker],
         orderbook_request([ticker |-> ticker, depth |-> None]))

get_market_candlesticks(ticker, series_ticker, start_ts, end_ts, period_interval) ==
    LET a == [ticker |-> ticker, series_ticker |-> series_ticker,
              start_ts |-> start_ts, end_ts |-> end_ts,
              period_interval |-> period_interval]
    IN  Call("get_market_candlesticks", a, candlesticks_request(a))

get_trades(limit, cursor, ticker, min_ts, max_ts) ==
    LET a == [limit |-> limit, cursor |-> cursor, ticker |-> ticker,
              min_ts |-> min_ts, max_ts |-> max_ts]
    IN  Call("get_trades", a, trades_request(a))

get_series_list(limit, cursor, category, tags) ==
    LET a == [limit |-> limit, cursor |-> cursor, category |-> category,
              tags |-> tags]
    IN  Call("get_series_list", a, series_list_request(a))

get_series(series_ticker) ==
    LET a == [series_ticker |-> series_ticker]
    IN  Call("get_series", a, series_request(a))

get_exchange_status ==
    Call("get_exchange_status", NoArgs, exchange_status_request)

get_exchange_schedule ==
    Call("get_exchange_schedule", NoArgs, exchange_schedule_request)

\* the transport answers the pending request; the call decodes and returns
Complete(resp) ==
    /\ pc = "awaiting"
    /\ pc' = "done"
    /\ response' = resp
    /\ result' = finish(op, resp)
    /\ UNCHANGED <<op, args, request, nsent, tasks>>

\* the caller takes the result; nothing of the call is kept
Return ==
    /\ pc = "done"
    /\ pc' = "idle"
    /\ op' = "none"
    /\ args' = NoArgs
    /\ request' = NoRequest
    /\ response' = NoResponse
    /\ result' = Pending
    /\ nsent' = 0
    /\ UNCHANGED tasks

\* a caller decodes a payload into one of the public models (derive Deserialize)
deserialize(ty, json) ==
    /\ pc = "idle"
    /\ pc' = "done"
    /\ op' = "deserialize"
    /\ args' = [ty |-> ty, input |-> json]
    /\ result' = Decode(ty, json)
    /\ UNCHANGED <<request, response, nsent, tasks>>

\* a caller encodes a SettlementResult (derive Serialize)
serialize(v) ==
    /\ pc = "idle"
    /\ pc' = "done"
    /\ op' = "serialize"
    /\ args' = [ty |-> TSettlementResult, input |-> v]
    /\ result' = Ok(SerializeSettlementResult(v))
    /\ UNCHANGED <<request, response, nsent, tasks>>

CallEvents(I, S, B) ==
    /\ pc = "idle"
    /\ \E limit \in I, cursor \in S, status \in S, series_ticker \in S,
       with_nested_markets \in B :
        get_events(limit, cursor, status, series_ticker, with_nested_markets)

CallEvent == pc = "idle" /\ \E t \in TickerVals : get_event(t)

CallMarkets(I, S) ==
    /\ pc = "idle"
    /\ \E limit \in I, cursor \in S, event_ticker \in S, series_ticker \in S,
       status \in S, tickers \in S, min_close_ts \in I, max_close_ts \in I :
        get_markets(limit, cursor, event_ticker, series_ticker, status, tickers,
                    min_close_ts, max_close_ts)

CallMarket == pc = "idle" /\ \E t \in TickerVals : get_market(t)

CallOrderbook(D) == pc = "idle" /\ \E t \in TickerVals, depth \in D : get_orderbook(t, depth)

CallOrderbookFull == pc = "idle" /\ \E t \in TickerVals : get_orderbook_full(t)

CallCandlesticks(I, D) ==
    /\ pc = "idle"
    /\ \E t \in TickerVals, st \in TickerVals, start_ts \in I, end_ts \in I,
       period_interval \in D :
        get_market_candlesticks(t, st, start_ts, end_ts, period_interval)

CallTrades(I, S) ==
    /\ pc = "idle"
    /\ \E limit \in I, cursor \in S, ticker \in S, min_ts \in I, max_ts \in I :
        get_trades(limit, cursor, ticker, min_ts, max_ts)

CallSeriesList(I, S) ==
    /\ pc = "idle"
    /\ \E limit \in I, cursor \in S, category \in S, tags \in S :
        get_series_list(limit, cursor, category, tags)

CallSeries == pc = "idle" /\ \E t \in TickerVals : get_series(t)

CallExchangeStatus == pc = "idle" /\ get_exchange_status

CallExchangeSchedule == pc = "idle" /\ get_exchange_schedule

DecodeModel ==
    pc = "idle" /\ \E ty \in ModelTypes : \E json \in Payloads(ty) : deserialize(ty, json)

EncodeResult == pc = "idle" /\ \E v \in SettlementResults : serialize(v)

AnswerPlain == pc = "awaiting" /\ \E resp \in NarrowResponses(op) : Complete(resp)

AnswerAny == pc = "awaiting" /\ \E resp \in WideResponses(op) : Complete(resp)

\* every combination of arguments; the transport fails or answers an empty page
NextQuery ==
    \/ CallEvents(WideI64, WideStr, WideBool)
    \/ CallEvent
    \/ CallMarkets(WideI64, WideStr)
    \/ CallMarket
    \/ CallOrderbook(WideI32)
    \/ CallOrderbookFull
    \/ CallCandlesticks(WideI64, WideI32)
    \/ CallTrades(WideI64, WideStr)
    \/ CallSeriesList(WideI64, WideStr)
    \/ CallSeries
    \/ AnswerPlain
    \/ Return

\* calls without filters (get_events with or without a limit, the orderbook
\* with any depth) and the exchange operations; the transport answers
\* with any payload of the family
NextDecode ==
    \/ CallEvents(PageLimits, OnlyNone, OnlyNone)
    \/ CallEvent
    \/ CallMarkets(OnlyNone, OnlyNone)
    \/ CallMarket
    \/ CallOrderbook(WideI32)
    \/ CallOrderbookFull
    \/ CallCandlesticks(OnlyNone, OnlyNone)
    \/ CallTrades(OnlyNone, OnlyNone)
    \/ CallSeriesList(OnlyNone, OnlyNone)
    \/ CallSeries
    \/ CallExchangeStatus
    \/ CallExchangeSchedule
    \/ AnswerAny
    \/ Return
    \/ DecodeModel
    \/ EncodeResult

SpecQuery == Init /\ [][NextQuery]_vars

SpecDecode == Init /\ [][NextDecode]_vars

(***************************************************************************)
(* Several caller tasks invoke operations on one shared client (&self).    *)
(* Each task has its own call: the arguments it passed, the request it     *)
(* built, the response to that request and the value returned.  The steps  *)
(* of different tasks interleave in any order.                             *)
(***************************************************************************)
SharedOps == {"get_events", "get_trades", "get_market"}

RequestOf(o, a) ==
    CASE o = "get_events" -> events_request(a)
      [] o = "get_trades" -> trades_request(a)
      [] o = "get_market" -> market_request(a)

SharedCursors == {None, Some(Str(TxtAbc)), Some(Str(TxtOpen))}

SharedArgs(o) ==
    CASE o = "get_events" ->
            {[limit |-> None, cursor |-> c, status |-> None, series_ticker |-> None,
              with_nested_markets |-> None] : c \in SharedCursors}
      [] o = "get_trades" ->
            {[limit |-> None, cursor |-> c, ticker |-> None, min_ts |-> None,
              max_ts |-> None] : c \in SharedCursors}
      [] o = "get_market" -> {[ticker |-> t] : t \in TickerVals}

\* two pages that differ in cursor and in items, or a transport failure
SharedResponses(o) ==
    {TransportErr} \cup
    CASE o = "get_events" ->
            {Body(JObj(("cursor" :> JStr(TxtYes)) @@ ("events" :> JArr(<<EventA>>)))),
             Body(JObj(("cursor" :> JNull) @@ ("events" :> JArr(<<EventB, EventA>>))))}
      [] o = "get_trades" ->
            {Body(JObj(("cursor" :> JStr(TxtMaybe)) @@ ("trades" :> JArr(<<TradeA>>)))),
             Body(JObj("trades" :> JArr(<<TradeB, TradeA>>)))}
      [] o = "get_market" ->
            {Body(JObj("market" :> MarketA)), Body(JObj("market" :> MarketB))}

\* a faulty variant: the client remembers the cursor of a call in flight and
\* sends it in place of the caller's
Invoke_SharedCursor(t, o, a) ==
    /\ tasks[t].pc = "idle"
    /\ LET others == {u \in Tasks \ {t} :
                          tasks[u].pc = "awaiting" /\ "cursor" \in DOMAIN tasks[u].args}
           sent == IF others = {} \/ "cursor" \notin DOMAIN a THEN a
                   ELSE [a EXCEPT !.cursor = tasks[CHOOSE u \in others : TRUE].args.cursor]
       IN  tasks' = [tasks EXCEPT ![t] =
                        [pc |-> "awaiting", op |-> o, args |-> a,
                         request |-> RequestOf(o, sent),
                         response |-> NoResponse, result |-> Pending]]
    /\ UNCHANGED <<pc, op, args, request, response, result, nsent>>

\* task t calls operation o: the request is built from the arguments
Invoke(t, o, a) ==
    /\ tasks[t].pc = "idle"
    /\ tasks' = [tasks EXCEPT ![t] =
                    [pc |-> "awaiting", op |-> o, args |-> a,
                     request |-> RequestOf(o, a),
                     response |-> NoResponse, result |-> Pending]]
    /\ UNCHANGED <<pc, op, args, request, response, result, nsent>>

\* the transport answers task t's request; the call decodes and returns
Respond(t, resp) ==
    /\ tasks[t].pc = "awaiting"
    /\ tasks' = [tasks EXCEPT ![t] =
                    [@ EXCEPT !.pc = "done", !.response = resp,
                              !.result = finish(tasks[t].op, resp)]]
    /\ UNCHANGED <<pc, op, args, request, response, result, nsent>>

\* the caller of task t takes the result
Take(t) ==
    /\ tasks[t].pc = "done"
    /\ tasks' = [tasks EXCEPT ![t] = IdleTask]
    /\ UNCHANGED <<pc, op, args, request, response, result, nsent>>

InvokeAny ==
    \E t \in Tasks : tasks[t].pc = "idle" /\
        \E o \in SharedOps : \E a \in SharedArgs(o) : Invoke(t, o, a)

RespondAny ==
    \E t \in Tasks : tasks[t].pc = "awaiting" /\
        \E resp \in SharedResponses(tasks[t].op) : Respond(t, resp)

TakeAny == \E t \in Tasks : Take(t)

NextShared == InvokeAny \/ RespondAny \/ TakeAny

SpecShared == Init /\ [][NextShared]_vars

(***************************************************************************)
(* Vocabulary of the properties.                                           *)
(***************************************************************************)
ListOps ==
    {"get_events", "get_markets", "get_trades", "get_market_candlesticks",
     "get_series_list"}

CursorOps == {"get_events", "get_markets", "get_trades", "get_series_list"}

ItemsKey(o) ==
    CASE o = "get_events" -> "events"
      [] o = "get_markets" -> "markets"
      [] o = "get_trades" -> "trades"
      [] o = "get_market_candlesticks" -> "candlesticks"
      [] o = "get_series_list" -> "series"

ItemType(o) ==
    CASE o = "get_events" -> TStruct("Event")
      [] o = "get_markets" -> TStruct("Market")
      [] o = "get_trades" -> TStruct("Trade")
      [] o = "get_market_candlesticks" -> TStruct("Candle")
      [] o = "get_series_list" -> TStruct("Series")

\* the call has returned for a response whose body is a JSON object
ReturnedFromObject == pc = "done" /\ response[1] = "Body" /\ response[2][1] = "obj"

Envelope == response[2][2]

HasKey(obj, k) == k \in DOMAIN obj

CursorWellFormed(env) ==
    ~HasKey(env, "cursor") \/ env["cursor"][1] \in {"null", "str"}

ReturnedItems ==
    IF op = "get_market_candlesticks" THEN result[2] ELSE result[2][2]

\* the envelope's item field is an array whose items all decode
ItemsDecodable(o, env) ==
    /\ HasKey(env, ItemsKey(o))
    /\ env[ItemsKey(o)][1] = "arr"
    /\ \A i \in DOMAIN env[ItemsKey(o)][2] :
           IsOk(Decode(ItemType(o), env[ItemsKey(o)][2][i]))

(***************************************************************************)
(* C1: every list operation, given a response whose item-array field is    *)
(* JSON null (and whose cursor is a string, null or omitted), succeeds and *)
(* returns an empty item sequence.                                         *)
(***************************************************************************)
C1_NullItemsGiveEmpty ==
    (/\ ReturnedFromObject
     /\ op \in ListOps
     /\ HasKey(Envelope, ItemsKey(op))
     /\ Envelope[ItemsKey(op)][1] = "null"
     /\ CursorWellFormed(Envelope))
    => (IsOk(result) /\ ReturnedItems = <<>>)

(***************************************************************************)
(* C2: get_events, get_markets, get_trades and get_series_list, given an   *)
(* envelope whose items decode: a string cursor c is returned as Some(c),  *)
(* unchanged; a null or omitted cursor is returned as None; the call       *)
(* succeeds in both cases.                                                 *)
(***************************************************************************)
C2_CursorThreaded ==
    (/\ ReturnedFromObject
     /\ op \in CursorOps
     /\ ItemsDecodable(op, Envelope))
    => /\ (HasKey(Envelope, "cursor") /\ Envelope["cursor"][1] = "str")
            => (IsOk(result) /\ result[2][1] = Some(Envelope["cursor"][2]))
       /\ (~HasKey(Envelope, "cursor") \/ Envelope["cursor"][1] = "null")
            => (IsOk(result) /\ result[2][1] = None)

C2_Witness ==
    /\ ReturnedFromObject
    /\ op = "get_trades"
    /\ ItemsDecodable(op, Envelope)
    /\ Len(Envelope["trades"][2]) >= 1
    /\ HasKey(Envelope, "cursor")
    /\ Envelope["cursor"] = JStr(TxtAbc)
    /\ result[1] = "Ok"
    /\ result[2][1] = Some(TxtAbc)

(***************************************************************************)
(* C6: SettlementResult round-trips through its wire tokens: Yes, No,      *)
(* Void, AllNo, AllYes are written as "yes", "no", "", "all_no",           *)
(* "all_yes"; each of the five tokens is read back as the same variant;    *)
(* reading what was written gives the variant, writing what was read gives *)
(* the token.                                                              *)
(***************************************************************************)
ClaimedToken(v) ==
    CASE v = Yes -> <<"y", "e", "s">>
      [] v = No -> <<"n", "o">>
      [] v = Void -> <<>>
      [] v = AllNo -> <<"a", "l", "l", "_", "n", "o">>
      [] v = AllYes -> <<"a", "l", "l", "_", "y", "e", "s">>

ClaimedTokens == {ClaimedToken(v) : v \in SettlementResults}

C6_SettlementResultRoundTrip ==
    /\ (pc = "done" /\ op = "serialize")
        => /\ result = Ok(JStr(ClaimedToken(args.input)))
           /\ Decode(TSettlementResult, result[2]) = Ok(args.input)
    /\ (/\ pc = "done" /\ op = "deserialize"
        /\ args.ty = TSettlementResult
        /\ args.input[1] = "str"
        /\ args.input[2] \in ClaimedTokens)
        => /\ IsOk(result)
           /\ ClaimedToken(result[2]) = args.input[2]
           /\ SerializeSettlementResult(result[2]) = args.input

C6_Witness ==
    /\ pc = "done"
    /\ op = "deserialize"
    /\ args.ty = TSettlementResult
    /\ args.input = JStr(<<>>)
    /\ result = Ok(Void)

(***************************************************************************)
(* C7: no partial success.  When one item of the item array of a           *)
(* get_markets / get_events / get_trades / get_series_list response cannot *)
(* be decoded (a required field is missing, a field has the wrong type, a  *)
(* Market's result token is none of the five), the call returns an error:  *)
(* no items, no cursor, no default variant in place of the token.          *)
(***************************************************************************)
RequiredKeys(fs) ==
    {fs[i].name : i \in {j \in DOMAIN fs : fs[j].attr = "plain" /\ fs[j].ty[1] # "Option"}}

UnknownToken(market) ==
    /\ HasKey(market[2], "result")
    /\ market[2]["result"][1] = "str"
    /\ market[2]["result"][2] \notin ClaimedTokens

BadItem(o, item) ==
    \/ RequiredKeys(Fields(ItemType(o)[2])) \ DOMAIN item[2] # {}
    \/ o = "get_markets" /\ UnknownToken(item)
    \/ /\ o = "get_events"
       /\ HasKey(item[2], "markets")
       /\ item[2]["markets"][1] = "arr"
       /\ \E i \in DOMAIN item[2]["markets"][2] : UnknownToken(item[2]["markets"][2][i])
    \/ o = "get_trades" /\ HasKey(item[2], "count") /\ item[2]["count"][1] # "num"
    \/ o = "get_series_list" /\ HasKey(item[2], "tags") /\ item[2]["tags"][1] = "str"

HasBadItem(o, env) ==
    /\ HasKey(env, ItemsKey(o))
    /\ env[ItemsKey(o)][1] = "arr"
    /\ \E i \in DOMAIN env[ItemsKey(o)][2] : BadItem(o, env[ItemsKey(o)][2][i])

C7_NoPartialSuccess ==
    (/\ ReturnedFromObject
     /\ op \in CursorOps
     /\ HasBadItem(op, Envelope))
    => result = Err("decode")

C7_Witness ==
    /\ ReturnedFromObject
    /\ op = "get_markets"
    /\ HasKey(Envelope, "cursor")
    /\ Envelope["cursor"] = JStr(TxtAbc)
    /\ HasKey(Envelope, "markets")
    /\ Envelope["markets"] = JArr(<<MarketA, MarketBadToken>>)
    /\ result = Err("decode")

(***************************************************************************)
(* C8: Series decoding is forward-compatible.  For a Series payload whose  *)
(* typed keys (ticker, frequency, title, category, tags,                   *)
(* settlement_sources, contract_url) hold values of their types, decoding  *)
(* succeeds and `extra` holds exactly the other keys of the payload, each  *)
(* with its JSON value unchanged.                                          *)
(***************************************************************************)
ClaimedSeriesKeys ==
    {"ticker", "frequency", "title", "category", "tags", "settlement_sources",
     "contract_url"}

OptionalText(obj, k) == ~HasKey(obj, k) \/ obj[k][1] \in {"null", "str"}

OptionalArrayOf(obj, k, tag) ==
    \/ ~HasKey(obj, k)
    \/ obj[k][1] = "null"
    \/ obj[k][1] = "arr" /\ \A i \in DOMAIN obj[k][2] : obj[k][2][i][1] = tag

SourcesWellTyped(obj) ==
    /\ OptionalArrayOf(obj, "settlement_sources", "obj")
    /\ (HasKey(obj, "settlement_sources") /\ obj["settlement_sources"][1] = "arr")
        => \A i \in DOMAIN obj["settlement_sources"][2] :
               /\ OptionalText(obj["settlement_sources"][2][i][2], "url")
               /\ OptionalText(obj["settlement_sources"][2][i][2], "name")

SeriesWellTyped(json) ==
    /\ json[1] = "obj"
    /\ \A k \in {"ticker", "frequency", "title", "category", "contract_url"} :
           OptionalText(json[2], k)
    /\ OptionalArrayOf(json[2], "tags", "str")
    /\ SourcesWellTyped(json[2])

\* the Series payload the finished step decoded, and the Series it produced
DecodedSeriesPayload ==
    IF op = "deserialize" THEN args.input ELSE Envelope["series"]

SeriesDecodeStep ==
    /\ pc = "done"
    /\ \/ op = "deserialize" /\ args.ty = TStruct("Series")
       \/ /\ op = "get_series"
          /\ response[1] = "Body"
          /\ response[2][1] = "obj"
          /\ HasKey(Envelope, "series")

C8_SeriesKeepsUnknownKeys ==
    (SeriesDecodeStep /\ SeriesWellTyped(DecodedSeriesPayload))
    => /\ IsOk(result)
       /\ DOMAIN result[2]["extra"] = (DOMAIN DecodedSeriesPayload[2]) \ ClaimedSeriesKeys
       /\ \A k \in DOMAIN result[2]["extra"] :
              result[2]["extra"][k] = DecodedSeriesPayload[2][k]

C8_Witness ==
    /\ pc = "done"
    /\ op = "deserialize"
    /\ args.ty = TStruct("Series")
    /\ SeriesWellTyped(args.input)
    /\ DOMAIN args.input[2] = ClaimedSeriesKeys \cup {"new_field", "volume"}
    /\ args.input[2]["new_field"] = JNum(42)
    /\ IsOk(result)
    /\ DOMAIN result[2]["extra"] = {"new_field", "volume"}
    /\ result[2]["extra"]["new_field"] = JNum(42)

(***************************************************************************)
(* C9: for Series `tags` and `settlement_sources`, and for                 *)
(* MultivariateEventCollection `tags` and `markets`, a key that is         *)
(* omitted, null or an empty array decodes to the empty sequence, and a    *)
(* non-empty array decodes to its elements in order (the rest of the       *)
(* payload being well-typed).                                              *)
(***************************************************************************)
EmptyShape(obj, k) ==
    \/ ~HasKey(obj, k)
    \/ obj[k][1] = "null"
    \/ obj[k] = JArr(<<>>)

\* field k of the decoded struct holds the array's elements, decoded, in order
ElementsInOrder(obj, k, ty) ==
    (HasKey(obj, k) /\ obj[k][1] = "arr")
    => /\ Len(result[2][k]) = Len(obj[k][2])
       /\ \A i \in DOMAIN obj[k][2] : Ok(result[2][k][i]) = Decode(ty, obj[k][2][i])

CollectionWellTyped(json) ==
    /\ json[1] = "obj"
    /\ RequiredKeys(MultivariateEventCollectionFields) \subseteq DOMAIN json[2]
    /\ OptionalArrayOf(json[2], "tags", "str")
    /\ OptionalArrayOf(json[2], "markets", "obj")
    /\ (HasKey(json[2], "markets") /\ json[2]["markets"][1] = "arr")
        => \A i \in DOMAIN json[2]["markets"][2] :
               json[2]["markets"][2][i] \in {MarketA, MarketB}

C9_NullOmittedEmptyAlike ==
    /\ (SeriesDecodeStep /\ SeriesWellTyped(DecodedSeriesPayload))
        => /\ IsOk(result)
           /\ \A k \in {"tags", "settlement_sources"} :
                  EmptyShape(DecodedSeriesPayload[2], k) => result[2][k] = <<>>
           /\ ElementsInOrder(DecodedSeriesPayload[2], "tags", TString)
           /\ ElementsInOrder(DecodedSeriesPayload[2], "settlement_sources",
                              TStruct("SettlementSource"))
    /\ (/\ pc = "done" /\ op = "deserialize"
        /\ args.ty = TStruct("MultivariateEventCollection")
        /\ CollectionWellTyped(args.input))
        => /\ IsOk(result)
           /\ \A k \in {"tags", "markets"} :
                  EmptyShape(args.input[2], k) => result[2][k] = <<>>
           /\ ElementsInOrder(args.input[2], "tags", TString)
           /\ ElementsInOrder(args.input[2], "markets", TStruct("Market"))

C9_Witness ==
    /\ pc = "done"
    /\ op = "deserialize"
    /\ args.ty = TStruct("Series")
    /\ SeriesWellTyped(args.input)
    /\ HasKey(args.input[2], "tags")
    /\ args.input[2]["tags"] = JNull
    /\ ~HasKey(args.input[2], "settlement_sources")
    /\ IsOk(result)
    /\ result[2]["tags"] = <<>>
    /\ result[2]["settlement_sources"] = <<>>

(***************************************************************************)
(* C10: get_event returns the Event under `event` whatever the sibling     *)
(* keys of the envelope are: a top-level `markets` that is an array, null  *)
(* or omitted, and any unknown key, neither change the returned Event nor  *)
(* make the call fail.                                                     *)
(***************************************************************************)
C10_SiblingsIgnored ==
    (/\ ReturnedFromObject
     /\ op = "get_event"
     /\ HasKey(Envelope, "event")
     /\ IsOk(Decode(TStruct("Event"), Envelope["event"]))
     /\ (~HasKey(Envelope, "markets") \/ Envelope["markets"][1] \in {"null", "arr"}))
    => result = Decode(TStruct("Event"), Envelope["event"])

(***************************************************************************)
(* Reading a request target back: the query is what follows the first "?", *)
(* its pairs are separated by "&", a pair's name and value by "=".         *)
(***************************************************************************)
HasQuery(target) == FirstIndex(target, "?") # 0

QueryOf(target) == SubSeq(target, FirstIndex(target, "?") + 1, Len(target))

PairOf(part) ==
    LET k == FirstIndex(part, "=")
    IN  IF k = 0 THEN [name |-> part, bare |-> TRUE, value |-> <<>>]
        ELSE [name |-> SubSeq(part, 1, k - 1), bare |-> FALSE,
              value |-> SubSeq(part, k + 1, Len(part))]

QueryPairs(target) ==
    IF ~HasQuery(target) \/ QueryOf(target) = <<>> THEN <<>>
    ELSE LET parts == SplitOn(QueryOf(target), "&")
         IN  [j \in DOMAIN parts |-> PairOf(parts[j])]

Occurrences(target, sym) == Cardinality({i \in DOMAIN target : target[i] = sym})

HexValue(c) ==
    IF \E i \in DOMAIN Digits : Digits[i] = c
    THEN (CHOOSE i \in DOMAIN Digits : Digits[i] = c) - 1
    ELSE CASE c = "A" -> 10 [] c = "B" -> 11 [] c = "C" -> 12
           [] c = "D" -> 13 [] c = "E" -> 14 [] c = "F" -> 15

\* the character with an ASCII code, for the reserved characters of the inputs
AsciiChar(n) ==
    CASE n = 35 -> "#" [] n = 37 -> "%" [] n = 38 -> "&" [] n = 43 -> "+"
      [] n = 47 -> "/" [] n = 61 -> "=" [] n = 63 -> "?"

\* application/x-www-form-urlencoded decoding: "+" is a space, %XX a byte
RECURSIVE FormDecode(_)
FormDecode(s) ==
    IF s = <<>> THEN <<>>
    ELSE IF Head(s) = "+" THEN <<" ">> \o FormDecode(Tail(s))
    ELSE IF Head(s) = "%"
    THEN <<AsciiChar(16 * HexValue(s[2]) + HexValue(s[3]))>>
             \o FormDecode(SubSeq(s, 4, Len(s)))
    ELSE <<Head(s)>> \o FormDecode(Tail(s))

RECURSIVE DecimalValue(_)
DecimalValue(s) ==
    IF s = <<>> THEN 0
    ELSE 10 * DecimalValue(SubSeq(s, 1, Len(s) - 1)) + HexValue(s[Len(s)])

\* t is the canonical decimal text of n: a "-" for a negative n, no leading zero
IsDecimalOf(t, n) ==
    LET digits == IF n < 0 THEN Tail(t) ELSE t
    IN  /\ t # <<>>
        /\ (n < 0) = (Head(t) = "-")
        /\ digits # <<>>
        /\ \A i \in DOMAIN digits : \E d \in DOMAIN Digits : Digits[d] = digits[i]
        /\ (Len(digits) > 1 => digits[1] # "0")
        /\ DecimalValue(digits) = IF n < 0 THEN -n ELSE n

\* t is the canonical text of the argument value v
IsCanonicalText(t, v) ==
    CASE v[1] \in {"i64", "i32"} -> IsDecimalOf(t, v[2])
      [] v[1] = "bool" ->
            t = IF v[2] THEN <<"t", "r", "u", "e">> ELSE <<"f", "a", "l", "s", "e">>
      [] v[1] = "String" -> t = v[2]

\* the operations with optional query parameters, and the parameters in the
\* order of the operation's signature
ParamOps ==
    {"get_events", "get_markets", "get_trades", "get_series_list",
     "get_market_candlesticks", "get_orderbook"}

Declared(o) ==
    CASE o = "get_events" ->
            <<"limit", "cursor", "status", "series_ticker", "with_nested_markets">>
      [] o = "get_markets" ->
            <<"limit", "cursor", "event_ticker", "series_ticker", "status",
              "tickers", "min_close_ts", "max_close_ts">>
      [] o = "get_trades" -> <<"limit", "cursor", "ticker", "min_ts", "max_ts">>
      [] o = "get_series_list" -> <<"limit", "cursor", "category", "tags">>
      [] o = "get_market_candlesticks" -> <<"start_ts", "end_ts", "period_interval">>
      [] o = "get_orderbook" -> <<"depth">>

DeclaredNames(o) == {Declared(o)[i] : i \in DOMAIN Declared(o)}

\* the operation has handed its request to the transport
Requested == pc = "awaiting" /\ op \in ParamOps

PairsNamed(ps, n) == {j \in DOMAIN ps : ps[j].name = <<n>>}

\* a parameter passed as None leaves no trace in the request
AbsentFromRequest(ps, n) ==
    /\ PairsNamed(ps, n) = {}
    /\ Occurrences(request.target, n) = 0

\* a parameter passed as Some(v) has one pair, name=value, and Shown(value, v)
PresentOnce(ps, n, Shown(_, _)) ==
    /\ Cardinality(PairsNamed(ps, n)) = 1
    /\ Occurrences(request.target, n) = 1
    /\ \A j \in PairsNamed(ps, n) :
           /\ ~ps[j].bare
           /\ Shown(ps[j].value, args[n][2])

IsEncodedText(t, v) ==
    /\ \A i \in DOMAIN t : t[i] \in Unreserved \cup {"+", "%"}
    /\ IsCanonicalText(FormDecode(t), v)

(***************************************************************************)
(* C3 as stated: a parameter passed as None does not appear in the query   *)
(* string at all; a parameter passed as Some(v) appears exactly once, as   *)
(* name=v with v in its canonical text form: the decimal integer,          *)
(* true/false, or the string itself.                                       *)
(***************************************************************************)
C3_ValueAppearsVerbatim ==
    Requested =>
        LET ps == QueryPairs(request.target)
        IN  \A n \in DeclaredNames(op) :
                IF args[n] = None THEN AbsentFromRequest(ps, n)
                ELSE PresentOnce(ps, n, IsCanonicalText)

(***************************************************************************)
(* C3 amended: a parameter passed as None does not appear in the query     *)
(* string at all; a parameter passed as Some(v) appears exactly once, as   *)
(* name=e where e is the form-urlencoding of v's canonical text: e is made *)
(* of unreserved characters, "+" and %XX escapes and decodes to the        *)
(* decimal integer, true/false, or the string.                             *)
(***************************************************************************)
C3_ValueAppearsEncoded ==
    Requested =>
        LET ps == QueryPairs(request.target)
        IN  \A n \in DeclaredNames(op) :
                IF args[n] = None THEN AbsentFromRequest(ps, n)
                ELSE PresentOnce(ps, n, IsEncodedText)

C3_Witness ==
    /\ pc = "awaiting"
    /\ op = "get_events"
    /\ args.limit = Some(I64(-13))
    /\ args.cursor = Some(Str(TxtSpecial))
    /\ args.status = None
    /\ args.series_ticker = None
    /\ args.with_nested_markets = Some(Bool(TRUE))
    /\ request.target =
           <<"base_url", "/events", "?", "limit", "=", "-", "1", "3", "&",
             "cursor", "=", "a", "+", "%", "2", "6", "%", "3", "D", "&",
             "with_nested_markets", "=", "t", "r", "u", "e">>

(***************************************************************************)
(* C4: the supplied parameters appear in the query string in the           *)
(* operation's declaration order, whatever subset is supplied; get_markets *)
(* with limit = 2 and status = "open" alone requests exactly               *)
(* ?limit=2&status=open.                                                   *)
(***************************************************************************)
Supplied(n) == args[n] # None

C4_DeclarationOrder ==
    /\ Requested =>
        LET ps == QueryPairs(request.target)
            supplied == SelectSeq(Declared(op), Supplied)
        IN  [j \in DOMAIN ps |-> ps[j].name] = [j \in DOMAIN supplied |-> <<supplied[j]>>]
    /\ (/\ pc = "awaiting"
        /\ op = "get_markets"
        /\ args.limit = Some(I64(2))
        /\ args.status = Some(Str(TxtOpen))
        /\ \A n \in DeclaredNames(op) \ {"limit", "status"} : args[n] = None)
        => request.target =
               <<"base_url", "/markets", "?", "limit", "=", "2", "&",
                 "status", "=", "o", "p", "e", "n">>

C4_Witness ==
    /\ pc = "awaiting"
    /\ op = "get_markets"
    /\ args.limit = Some(I64(2))
    /\ args.status = Some(Str(TxtOpen))
    /\ \A n \in DeclaredNames(op) \ {"limit", "status"} : args[n] = None
    /\ request.target =
           <<"base_url", "/markets", "?", "limit", "=", "2", "&",
             "status", "=", "o", "p", "e", "n">>

(***************************************************************************)
(* C5: when every optional parameter of an operation is None, the          *)
(* requested URL or path carries no query suffix: no "?" follows the path. *)
(***************************************************************************)
C5_NoQuerySuffixWithoutParams ==
    (Requested /\ \A n \in DeclaredNames(op) : args[n] = None)
    => Occurrences(request.target, "?") = 0

(***************************************************************************)
(* C11: get_orderbook(ticker, depth) requests the path                     *)
(* <base>/markets/<ticker>/orderbook, followed by ?depth=N exactly when    *)
(* depth is Some(N) and by nothing when depth is None;                     *)
(* get_orderbook_full(ticker) issues the request of                        *)
(* get_orderbook(ticker, None) and returns what it returns.                *)
(***************************************************************************)
OrderbookPath(ticker) == <<"base_url", "/markets/">> \o ticker \o <<"/orderbook">>

\* target is path followed by ?depth= and the decimal text of n
HasDepthSuffix(target, path, n) ==
    /\ Len(target) > Len(path) + 3
    /\ SubSeq(target, 1, Len(path) + 3) = path \o <<"?", "depth", "=">>
    /\ IsDecimalOf(SubSeq(target, Len(path) + 4, Len(target)), n)

\* what get_orderbook hands back for a response, read off the payload
OrderbookOutcome(resp) ==
    IF resp = TransportErr THEN Err("transport")
    ELSE Decode(TStruct("OrderbookResponse"), resp[2])

C11_OrderbookDepthSuffix ==
    /\ (pc \in {"awaiting", "done"} /\ op = "get_orderbook") =>
           /\ request.via = "client.get"
           /\ (args.depth = None => request.target = OrderbookPath(args.ticker))
           /\ (args.depth # None =>
                  HasDepthSuffix(request.target, OrderbookPath(args.ticker),
                                 args.depth[2][2]))
    /\ (pc \in {"awaiting", "done"} /\ op = "get_orderbook_full") =>
           /\ request.via = "client.get"
           /\ request.target = OrderbookPath(args.ticker)
    /\ (pc = "done" /\ op \in {"get_orderbook", "get_orderbook_full"}) =>
           /\ IsErr(result) = IsErr(OrderbookOutcome(response))
           /\ IsOk(result) => result = Ok(OrderbookOutcome(response)[2]["orderbook"])
           /\ IsErr(result) => result = OrderbookOutcome(response)

C11_Witness ==
    /\ pc = "done"
    /\ op = "get_orderbook"
    /\ args.depth = Some(I32(10))
    /\ request.target = OrderbookPath(args.ticker) \o <<"?", "depth", "=", "1", "0">>
    /\ IsOk(result)
    /\ result[2]["yes"] # None

(***************************************************************************)
(* C12: the library keeps no state between or across calls.  Under any     *)
(* interleaving of calls on one shared client, the request a call sends    *)
(* depends only on its own arguments and the value it returns only on the  *)
(* response to its own request: a call passing cursor c sends c whatever   *)
(* ran before or runs alongside, and no call's cursor or items appear in   *)
(* another call's result.                                                  *)
(***************************************************************************)
InFlight(c) == c.pc \in {"awaiting", "done"}

\* the request of call c carries the cursor c was given, and no other
SendsOwnCursor(c) ==
    LET ps == QueryPairs(c.request.target)
        named == {j \in DOMAIN ps : ps[j].name = <<"cursor">>}
    IN  IF c.args.cursor = None THEN named = {}
        ELSE /\ Cardinality(named) = 1
             /\ \A j \in named : FormDecode(ps[j].value) = c.args.cursor[2][2]

\* the cursor of a response envelope, as the caller is to receive it
EnvelopeCursor(env) ==
    IF HasKey(env, "cursor") /\ env["cursor"][1] = "str"
    THEN Some(env["cursor"][2]) ELSE None

\* the value call c returned is read off the response to c's own request
ReturnsOwnResponse(c) ==
    IF c.response = TransportErr THEN c.result = Err("transport")
    ELSE LET env == c.response[2][2]
         IN  IF c.op = "get_market"
             THEN c.result = Decode(TStruct("Market"), env["market"])
             ELSE /\ IsOk(c.result)
                  /\ c.result[2][1] = EnvelopeCursor(env)
                  /\ Ok(c.result[2][2]) =
                         Decode(TVec(ItemType(c.op)), env[ItemsKey(c.op)])

C12_CallsIndependent ==
    /\ \A t \in Tasks :
           /\ (InFlight(tasks[t]) /\ tasks[t].op \in CursorOps)
                  => SendsOwnCursor(tasks[t])
           /\ tasks[t].pc = "done" => ReturnsOwnResponse(tasks[t])
    /\ \A t, u \in Tasks :
           /\ (InFlight(tasks[t]) /\ InFlight(tasks[u])
                   /\ tasks[t].op = tasks[u].op /\ tasks[t].args = tasks[u].args)
                  => tasks[t].request = tasks[u].request
           /\ (tasks[t].pc = "done" /\ tasks[u].pc = "done"
                   /\ tasks[t].op = tasks[u].op
                   /\ tasks[t].response = tasks[u].response)
                  => tasks[t].result = tasks[u].result

\* two calls of get_events alongside each other, with different cursors and
\* different pages
C12_Witness ==
    /\ tasks[1].pc = "done"
    /\ tasks[1].op = "get_events"
    /\ tasks[1].args.cursor = Some(Str(TxtAbc))
    /\ IsOk(tasks[1].result)
    /\ tasks[1].result[2][1] = Some(TxtYes)
    /\ tasks[2].pc = "done"
    /\ tasks[2].op = "get_events"
    /\ tasks[2].args.cursor = Some(Str(TxtOpen))
    /\ IsOk(tasks[2].result)
    /\ tasks[2].result[2][1] = None
    /\ Len(tasks[2].result[2][2]) = 2

(***************************************************************************)
(* C13: every operation invocation issues exactly one GET request.  When   *)
(* the request fails with a transport error the operation returns that     *)
(* error and issues no further request; when decoding the response fails   *)
(* it returns the decode error without another request.  No error is       *)
(* swallowed or turned into a default value.                               *)
(***************************************************************************)
Operations ==
    {"get_events", "get_event", "get_markets", "get_market", "get_orderbook",
     "get_orderbook_full", "get_market_candlesticks", "get_trades",
     "get_series_list", "get_series", "get_exchange_status",
     "get_exchange_schedule"}

\* the type the operation decodes the response body into
WrapperOf(o) ==
    CASE o = "get_events" -> "EventListResponse"
      [] o = "get_event" -> "SingleEventResponse"
      [] o = "get_markets" -> "MarketListResponse"
      [] o = "get_market" -> "SingleMarketResponse"
      [] o \in {"get_orderbook", "get_orderbook_full"} -> "OrderbookResponse"
      [] o = "get_market_candlesticks" -> "CandlestickListResponse"
      [] o = "get_trades" -> "TradeListResponse"
      [] o = "get_series_list" -> "get_series_list::SeriesListResponse"
      [] o = "get_series" -> "SingleSeriesResponse"
      [] o = "get_exchange_status" -> "ExchangeStatus"
      [] o = "get_exchange_schedule" -> "ExchangeScheduleResponse"

\* the response body does not decode into the operation's type
BodyUndecodable == IsErr(Decode(TStruct(WrapperOf(op)), response[2]))

\* a body that lacks a required key of the cited operations
LacksRequiredKey ==
    /\ response[2][1] = "obj"
    /\ \/ op = "get_market" /\ ~HasKey(response[2][2], "market")
       \/ op = "get_exchange_status" /\ ~HasKey(response[2][2], "trading_active")

C13_OneRequestErrorsPropagate ==
    (pc \in {"awaiting", "done"} /\ op \in Operations) =>
        /\ nsent = 1
        /\ request.via \in {"client.get", "signed_get"}
        /\ pc = "done" =>
               /\ response = TransportErr => result = Err("transport")
               /\ (response # TransportErr /\ BodyUndecodable) =>
                      result = Err("decode")
               /\ (response # TransportErr /\ LacksRequiredKey) => IsErr(result)
               /\ IsOk(result) => (response # TransportErr /\ ~BodyUndecodable)
               /\ IsOk(result) \/ IsErr(result)

\* get_exchange_status has returned the decode error of a body whose
\* trading_active is not a boolean, after its one request
C13_Witness ==
    /\ pc = "done"
    /\ op = "get_exchange_status"
    /\ nsent = 1
    /\ response # TransportErr
    /\ response[2][1] = "obj"
    /\ HasKey(response[2][2], "trading_active")
    /\ response[2][2]["trading_active"] = JStr(<<"x">>)
    /\ result = Err("decode")

(***************************************************************************)
(* C14: a successful get_events call with limit = Some(n) returns at most  *)
(* n events.                                                               *)
(***************************************************************************)
LimitedEvents == op = "get_events" /\ args.limit # None

SingleOps == {"get_event", "get_market", "get_series", "get_orderbook", "get_orderbook_full"}

EntityKey(o) ==
    CASE o = "get_event" -> "event"
      [] o = "get_market" -> "market"
      [] o = "get_series" -> "series"
      [] o \in {"get_orderbook", "get_orderbook_full"} -> "orderbook"

EntityType(o) ==
    CASE o = "get_event" -> TStruct("Event")
      [] o = "get_market" -> TStruct("Market")
      [] o = "get_series" -> TStruct("Series")
      [] o \in {"get_orderbook", "get_orderbook_full"} -> TStruct("Orderbook")

\* what the operation would have returned had the envelope carried cursor c
ResultWithCursor(c) == finish(op, Body(JObj(With(Envelope, "cursor", JStr(c)))))

\* the caller can tell the envelope's cursor from the returned value
CursorAvailable ==
    /\ ResultWithCursor(TxtYes) # ResultWithCursor(TxtMaybe)
    /\ op \in CursorOps => result[2][1] = EnvelopeCursor(Envelope)

C15_ListOpsReturnCursorPair ==
    (ReturnedFromObject /\ IsOk(result)) =>
        /\ op \in ListOps => CursorAvailable
        /\ op \in SingleOps =>
               Ok(result[2]) = Decode(EntityType(op), Envelope[EntityKey(op)])

(***************************************************************************)
(* C16: on success a list operation returns exactly the items of the       *)
(* response's item array: as many items, in the same order, each item's    *)
(* typed fields equal to the wire values; nothing is filtered, truncated,  *)
(* reordered or deduplicated.  A response {"cursor": "abc", "markets":     *)
(* [A, B]} yields (Some("abc"), [A, B]).                                   *)
(***************************************************************************)
FieldType(fs, k) == fs[CHOOSE i \in DOMAIN fs : fs[i].name = k].ty

\* the typed value v of a field of type ty shows the scalar wire value w
ShowsWire(ty, v, w) ==
    CASE ty[1] \in {"String", "i64", "i32", "f64", "bool"} -> v = w[2]
      [] ty[1] = "Enum" -> w[1] = "str" /\ WireName(VariantOf(v)) = w[2]
      [] ty[1] = "Option" /\ ty[2][1] \in {"String", "i64", "i32", "f64", "bool"} ->
            v = Some(w[2])
      [] OTHER -> TRUE

\* every typed key of the wire item that holds a scalar is shown by the item
ItemShowsWire(fs, item, wire) ==
    \A k \in TypedKeys(fs) \cap DOMAIN wire :
        wire[k][1] \in {"str", "num", "bool"} =>
            ShowsWire(FieldType(fs, k), item[k], wire[k])

ItemsArrayAnswered ==
    /\ ReturnedFromObject
    /\ op \in ListOps
    /\ IsOk(result)
    /\ HasKey(Envelope, ItemsKey(op))
    /\ Envelope[ItemsKey(op)][1] = "arr"

PageAB == ("cursor" :> JStr(TxtAbc)) @@ ("markets" :> JArr(<<MarketA, MarketB>>))

C16_ItemsAsOnTheWire ==
    /\ ItemsArrayAnswered =>
           LET xs == Envelope[ItemsKey(op)][2]
               fs == Fields(ItemType(op)[2])
           IN  /\ Len(ReturnedItems) = Len(xs)
               /\ \A i \in DOMAIN xs :
                      /\ Ok(ReturnedItems[i]) = Decode(ItemType(op), xs[i])
                      /\ ItemShowsWire(fs, ReturnedItems[i], xs[i][2])
    /\ (pc = "done" /\ op = "get_markets" /\ response = Body(JObj(PageAB))) =>
           /\ IsOk(result)
           /\ result[2][1] = Some(TxtAbc)
           /\ Len(result[2][2]) = 2
           /\ result[2][2][1]["ticker"] = <<"M", "A">>
           /\ result[2][2][2]["ticker"] = <<"M", "B">>

C16_Witness ==
    /\ pc = "done"
    /\ op = "get_markets"
    /\ response = Body(JObj(PageAB))
    /\ result[2][1] = Some(TxtAbc)
    /\ result[2][2][1]["ticker"] = <<"M", "A">>
    /\ result[2][2][2]["ticker"] = <<"M", "B">>
    /\ result[2][2][2]["result"] = Void

====
